---- MODULE Spec2Model ----
(***************************************************************************)
(* Writeback (finalization) of one function body's type-check tables:      *)
(* src/librustc_typeck/check/writeback.rs.                                 *)
(*                                                                         *)
(* FnCtxt::resolve_type_vars_in_body walks the body, resolves every type,  *)
(* region, substitution and adjustment of the in-progress tables           *)
(* (fcx.tables) through the Resolver and writes the results into a fresh   *)
(* TypeckTables (wbcx.tables), which it publishes at the end.              *)
(***************************************************************************)
EXTENDS Integers, Sequences, FiniteSets, TLC

(***************************************************************************)
(* Bounds of the model.                                                    *)
(***************************************************************************)
\* type variables ?1 .. ?NTyVars of the inference context
NTyVars == 2
\* region variables '?1 .. '?NRegionVars of the inference context
NRegionVars == 2
\* longest adjustment sequence recorded for one expression
MaxAdj == 2
\* most regions mentioned by one opaque-type witness
MaxWitnessRegions == 2

(***************************************************************************)
(* Finite maps (NodeMap / LocalTableInContext): functions on a key set.    *)
(***************************************************************************)
EmptyMap == << >>

Put(m, k, v) == [x \in (DOMAIN m) \cup {k} |-> IF x = k THEN v ELSE m[x]]

Remove(m, k) == [x \in (DOMAIN m) \ {k} |-> m[x]]

(***************************************************************************)
(* Regions (ty::RegionKind) and types (ty::TyS), as far as writeback       *)
(* looks into them.                                                        *)
(***************************************************************************)
Region(k, v) == [k |-> k, v |-> v]

ReStatic == Region("ReStatic", 0)
ReEarlyBound == Region("ReEarlyBound", 0)
ReEmpty == Region("ReEmpty", 0)
ReFree == Region("ReFree", 0)
ReLateBound == Region("ReLateBound", 0)
ReScope == Region("ReScope", 0)
ReSkolemized == Region("ReSkolemized", 0)
ReErased == Region("ReErased", 0)
ReVar(v) == Region("ReVar", v)

Regions ==
    {ReStatic, ReEarlyBound, ReEmpty, ReFree, ReLateBound, ReScope, ReSkolemized, ReErased}
        \cup {ReVar(v) : v \in 1..NRegionVars}

\* a type parameter of an ADT: none, a concrete type, or a type variable
NoParam == [k |-> "none", v |-> 0]
ParamInt == [k |-> "int", v |-> 0]
ParamAdt == [k |-> "adt", v |-> 0]
ParamVar(v) == [k |-> "var", v |-> v]

\* k: "int" (a built-in scalar), "adt" (a nominal type with one optional
\* type parameter and a list of region parameters), "var" (TyInfer(TyVar(v)))
\* or "err" (tcx.types.err)
Ty(k, v, arg, rs) == [k |-> k, v |-> v, arg |-> arg, rs |-> rs]
TInt == Ty("int", 0, NoParam, << >>)
TErr == Ty("err", 0, NoParam, << >>)
TVar(v) == Ty("var", v, NoParam, << >>)
TAdt(arg, rs) == Ty("adt", 0, arg, rs)

\* a generic argument (Kind): a type or a region
KindTy(t) == [kind |-> "type", ty |-> t, re |-> ReStatic]
KindRe(r) == [kind |-> "lifetime", ty |-> TInt, re |-> r]

\* one step of an adjustment sequence: Adjust::Borrow(AutoBorrow::Ref(region, _))
\* carries a region, every step a target type
Adjustment(kind, region, target) == [kind |-> kind, region |-> region, target |-> target]

region_needs_infer(r) == r.k = "ReVar"

ty_needs_infer(t) ==
    \/ t.k = "var"
    \/ t.arg.k = "var"
    \/ \E i \in 1..Len(t.rs) : region_needs_infer(t.rs[i])

kind_needs_infer(g) ==
    IF g.kind = "type" THEN ty_needs_infer(g.ty) ELSE region_needs_infer(g.re)

substs_needs_infer(ss) == \E i \in 1..Len(ss) : kind_needs_infer(ss[i])

adjustment_needs_infer(a) ==
    \/ a.kind = "Borrow" /\ region_needs_infer(a.region)
    \/ ty_needs_infer(a.target)

adjustments_needs_infer(as) == \E i \in 1..Len(as) : adjustment_needs_infer(as[i])

tys_needs_infer(ts) == \E i \in 1..Len(ts) : ty_needs_infer(ts[i])

\* TypeFoldable::needs_infer of a value of the given shape
needs_infer(shape, x) ==
    CASE shape = "ty" -> ty_needs_infer(x)
      [] shape = "tys" -> tys_needs_infer(x)
      [] shape = "region" -> region_needs_infer(x)
      [] shape = "substs" -> substs_needs_infer(x)
      [] OTHER -> adjustments_needs_infer(x)

is_scalar(t) == t.k = "int"

(***************************************************************************)
(* The inference context.  Each variable either has a value or is          *)
(* unresolvable; an unresolvable variable stands for itself.               *)
(***************************************************************************)
TyVarValue(v) ==
    CASE v % 3 = 1 -> TInt
      [] v % 3 = 2 -> TVar(v)
      [] OTHER -> TAdt(NoParam, << >>)

RegionVarValue(v) ==
    CASE v % 3 = 1 -> ReFree
      [] v % 3 = 2 -> ReVar(v)
      [] OTHER -> ReEarlyBound

resolve_region_var(r) == IF r.k = "ReVar" THEN RegionVarValue(r.v) ELSE r

resolve_param(p) ==
    IF p.k = "var"
    THEN LET t == TyVarValue(p.v) IN
         CASE t.k = "int" -> ParamInt
           [] t.k = "adt" -> ParamAdt
           [] OTHER -> p
    ELSE p

\* InferCtxt::resolve_type_vars_if_possible: every variable that has a value
\* is replaced by it, the others stay
resolve_type_vars_if_possible(t) ==
    IF t.k = "var"
    THEN TyVarValue(t.v)
    ELSE Ty(t.k, t.v, resolve_param(t.arg),
            [i \in 1..Len(t.rs) |-> resolve_region_var(t.rs[i])])

\* InferCtxt::fully_resolve: Ok(value without inference variables), or Err
\* when a variable of the value has no value
fully_resolve_ty(t) ==
    LET r == resolve_type_vars_if_possible(t) IN
    IF ty_needs_infer(r) THEN [ok |-> FALSE, val |-> t] ELSE [ok |-> TRUE, val |-> r]

fully_resolve_region(r) ==
    LET q == resolve_region_var(r) IN
    IF region_needs_infer(q) THEN [ok |-> FALSE, val |-> r] ELSE [ok |-> TRUE, val |-> q]

(***************************************************************************)
(* The session: errors recorded so far and the diagnostics of this run.    *)
(*   err_count   Session::err_count (has_errors is err_count > 0)          *)
(*   E0282       "type annotations needed" diagnostics emitted by the run  *)
(*   E0564       "only named lifetimes are allowed in `impl Trait`"        *)
(*   ty_errs     fully_resolve(&t) calls of Resolver::fold_ty that failed  *)
(*   re_errs     fully_resolve(&r) calls of Resolver::fold_region that     *)
(*               failed                                                    *)
(***************************************************************************)
has_errors(s) == s.err_count > 0

\* InferCtxt::need_type_info: emits E0282
need_type_info(s) == [s EXCEPT !.err_count = @ + 1, !.E0282 = @ + 1]

\* span_err!(.., E0564, ..)
span_err_E0564(s) == [s EXCEPT !.err_count = @ + 1, !.E0564 = @ + 1]

(***************************************************************************)
(* The Resolver (the type folding engine).  A fold returns the session it  *)
(* leaves and the folded value.                                            *)
(***************************************************************************)
Folded(s, v) == [sess |-> s, val |-> v]

\* report_error without the has_errors guard
report_error_always(s) == need_type_info(s)

\* if !self.tcx.sess.has_errors() { self.infcx.need_type_info(..) }
report_error(s) == IF ~has_errors(s) THEN need_type_info(s) ELSE s

\* match self.infcx.fully_resolve(&t) { Ok(t) => t, Err(_) => .. }
fold_ty_match(s, t, q) ==
    IF q.ok
    THEN Folded(s, q.val)
    ELSE Folded(report_error([s EXCEPT !.ty_errs = @ + 1]), TErr)

fold_ty(s, t) == fold_ty_match(s, t, fully_resolve_ty(t))

\* fold_region, had it called report_error as fold_ty does
fold_region_match_reports(s, r, q) ==
    IF q.ok
    THEN Folded(s, q.val)
    ELSE Folded(report_error([s EXCEPT !.re_errs = @ + 1]), ReStatic)

\* match self.infcx.fully_resolve(&r) { Ok(r) => r, Err(_) => re_static }
fold_region_match(s, r, q) ==
    IF q.ok
    THEN Folded(s, q.val)
    ELSE Folded([s EXCEPT !.re_errs = @ + 1], ReStatic)

fold_region(s, r) == fold_region_match(s, r, fully_resolve_region(r))

\* x.fold_with(&mut Resolver) for the shapes writeback folds: a list of
\* types (a signature, field types), a substitution list, an adjustment
\* sequence.  The session is threaded through, left to right; acc holds the
\* session and the elements folded so far.
Push(acc, f) == Folded(f.sess, Append(acc.val, f.val))

RECURSIVE fold_tys_from(_, _)
fold_tys_from(acc, ts) ==
    IF ts = << >>
    THEN acc
    ELSE fold_tys_from(Push(acc, fold_ty(acc.sess, Head(ts))), Tail(ts))

fold_tys(s, ts) == fold_tys_from(Folded(s, << >>), ts)

AsKind(kind, f) == Folded(f.sess, IF kind = "type" THEN KindTy(f.val) ELSE KindRe(f.val))

fold_kind(s, g) ==
    AsKind(g.kind, IF g.kind = "type" THEN fold_ty(s, g.ty) ELSE fold_region(s, g.re))

RECURSIVE fold_substs_from(_, _)
fold_substs_from(acc, ss) ==
    IF ss = << >>
    THEN acc
    ELSE fold_substs_from(Push(acc, fold_kind(acc.sess, Head(ss))), Tail(ss))

fold_substs(s, ss) == fold_substs_from(Folded(s, << >>), ss)

WithTarget(a, region, ft) == Folded(ft.sess, Adjustment(a.kind, region, ft.val))

fold_adjustment_target(a, fr) == WithTarget(a, fr.val, fold_ty(fr.sess, a.target))

fold_adjustment(s, a) ==
    fold_adjustment_target(
        a, IF a.kind = "Borrow" THEN fold_region(s, a.region) ELSE Folded(s, a.region))

RECURSIVE fold_adjustments_from(_, _)
fold_adjustments_from(acc, as) ==
    IF as = << >>
    THEN acc
    ELSE fold_adjustments_from(Push(acc, fold_adjustment(acc.sess, Head(as))), Tail(as))

fold_adjustments(s, as) == fold_adjustments_from(Folded(s, << >>), as)

(***************************************************************************)
(* The state writeback works on, as one record w:                          *)
(*   hir          the body's nodes, by local id (read only)                *)
(*   fcx_tables   the in-progress tables, fcx.tables (drained)             *)
(*   locals       fcx.locals, the types of the let-bound variables         *)
(*   anon_types   fcx.anon_types, the opaque-type registry (read only)     *)
(*   err_count_on_creation   of the FnCtxt                                 *)
(*   tables       wbcx.tables, the table being built                       *)
(*   sess         the session (see above)                                  *)
(*   fatal        a span_bug!, a failed assert! or expect(): the run has   *)
(*                panicked                                                 *)
(*   overwritten  the <<map, key>> pairs an insert into wbcx.tables found  *)
(*                already present                                          *)
(***************************************************************************)
\* the owner (DefIndex) of the body: WritebackCx::new takes it from the body id
BodyOwner == 1

HirId(owner, n) == [owner |-> owner, local_id |-> n]

\* hir.node_to_hir_id / hir ids of the body's own nodes
node_to_hir_id(n) == HirId(BodyOwner, n)

Ids(S) == {node_to_hir_id(n) : n \in S}

\* ty::TypeckTables::empty(Some(DefId::local(owner.owner)))
EmptyTables(owner) ==
    [local_id_root |-> owner,
     node_types |-> EmptyMap, node_substs |-> EmptyMap, adjustments |-> EmptyMap,
     type_dependent_defs |-> EmptyMap, pat_binding_modes |-> EmptyMap,
     pat_adjustments |-> EmptyMap, upvar_capture_map |-> EmptyMap,
     closure_tys |-> EmptyMap, closure_kinds |-> EmptyMap, cast_kinds |-> EmptyMap,
     liberated_fn_sigs |-> EmptyMap, fru_field_types |-> EmptyMap,
     generator_sigs |-> EmptyMap, generator_interiors |-> EmptyMap,
     used_trait_imports |-> {}, free_region_map |-> {},
     tainted_by_errors |-> FALSE]

Panic(w) == [w EXCEPT !.fatal = TRUE]

\* self.tables.<map>_mut().insert(k, v)
insert(w, map, k, v) ==
    [w EXCEPT !.tables[map] = Put(@, k, v),
              !.overwritten = IF k \in DOMAIN w.tables[map] THEN @ \cup {<<map, k>>} ELSE @]

\* FnCtxt::node_ty
node_ty(w, hir_id) == w.fcx_tables.node_types[hir_id]

\* FnCtxt::local_ty
local_ty(w, n) == w.locals[n]

\* WritebackCx::resolve: the fold, then tcx.lift_to_global, which fails on a
\* value that still holds an inference variable (span_bug!).  Returns the
\* state it leaves and the resolved value.
Resolved(w, shape, f) ==
    [w |-> [w EXCEPT !.sess = f.sess, !.fatal = needs_infer(shape, f.val)], val |-> f.val]

resolve_ty(w, t) == Resolved(w, "ty", fold_ty(w.sess, t))

resolve_tys(w, ts) == Resolved(w, "tys", fold_tys(w.sess, ts))

resolve_region(w, r) == Resolved(w, "region", fold_region(w.sess, r))

resolve_substs(w, ss) == Resolved(w, "substs", fold_substs(w.sess, ss))

resolve_adjustments(w, as) == Resolved(w, "adjustments", fold_adjustments(w.sess, as))

\* insert the resolved value r.val, unless resolve has panicked
insert_resolved(r, map, k) == IF r.w.fatal THEN r.w ELSE insert(r.w, map, k, r.val)

write_ty_to_tables(w, hir_id, ty) ==
    IF ty_needs_infer(ty) THEN Panic(w) ELSE insert(w, "node_types", hir_id, ty)

write_resolved_ty(r, hir_id) ==
    IF r.w.fatal THEN r.w ELSE write_ty_to_tables(r.w, hir_id, r.val)

\* Vec::pop
\* adjustments.get_mut(id).map(|a| a.pop())
pop_adjustment(t, id) ==
    IF id \in DOMAIN t.adjustments
    THEN [t EXCEPT !.adjustments[id] = IF @ = << >> THEN @ ELSE SubSeq(@, 1, Len(@) - 1)]
    ELSE t

\* the removal of the overload without that of the substitutions
remove_overload_keeps_substs(t, id) ==
    [t EXCEPT !.type_dependent_defs = Remove(@, id)]

\* type_dependent_defs_mut().remove(e.hir_id); node_substs_mut().remove(e.hir_id)
remove_overload(t, id) ==
    [t EXCEPT !.type_dependent_defs = Remove(@, id), !.node_substs = Remove(@, id)]

\* the inner match, had it popped both operands whatever the operator
pop_operand_adjustments_both(n, t) ==
    pop_adjustment(pop_adjustment(t, node_to_hir_id(n.kids[1])), node_to_hir_id(n.kids[2]))

\* the inner match of fix_scalar_builtin_expr, on the tables t
pop_operand_adjustments(n, t) ==
    CASE n.node = "ExprBinary" /\ ~n.by_value ->
           pop_adjustment(pop_adjustment(t, node_to_hir_id(n.kids[1])),
                          node_to_hir_id(n.kids[2]))
      [] n.node = "ExprAssignOp" -> pop_adjustment(t, node_to_hir_id(n.kids[1]))
      [] OTHER -> t

operand_ty(w, n, i) ==
    resolve_type_vars_if_possible(node_ty(w, node_to_hir_id(n.kids[i])))

fix_scalar_builtin_expr(w, e) ==
    CASE w.hir[e].node = "ExprUnaryNeg" ->
           IF is_scalar(operand_ty(w, w.hir[e], 1))
           THEN [w EXCEPT !.fcx_tables = remove_overload(@, node_to_hir_id(e))]
           ELSE w
      [] w.hir[e].node \in {"ExprBinary", "ExprAssignOp"} ->
           IF is_scalar(operand_ty(w, w.hir[e], 1)) /\ is_scalar(operand_ty(w, w.hir[e], 2))
           THEN [w EXCEPT !.fcx_tables =
                    pop_operand_adjustments(w.hir[e], remove_overload(@, node_to_hir_id(e)))]
           ELSE w
      [] OTHER -> w

\* a read of the adjustments that leaves them in the tentative tables
take_adjustment_leaves_it(w, hir_id) == w

\* adjustments_mut().remove(hir_id)
take_adjustment(w, hir_id) == [w EXCEPT !.fcx_tables.adjustments = Remove(@, hir_id)]

visit_adjustments(w, hir_id) ==
    IF w.fatal \/ hir_id \notin DOMAIN w.fcx_tables.adjustments
    THEN w
    ELSE insert_resolved(
             resolve_adjustments(take_adjustment(w, hir_id), w.fcx_tables.adjustments[hir_id]),
             "adjustments", hir_id)

visit_pat_adjustments(w, hir_id) ==
    IF w.fatal \/ hir_id \notin DOMAIN w.fcx_tables.pat_adjustments
    THEN w
    ELSE insert_resolved(
             resolve_tys([w EXCEPT !.fcx_tables.pat_adjustments = Remove(@, hir_id)],
                         w.fcx_tables.pat_adjustments[hir_id]),
             "pat_adjustments", hir_id)

\* the parts of visit_node_id, in its order
export_type_dependent_def(w, hir_id) ==
    IF hir_id \in DOMAIN w.fcx_tables.type_dependent_defs
    THEN insert([w EXCEPT !.fcx_tables.type_dependent_defs = Remove(@, hir_id)],
                "type_dependent_defs", hir_id, w.fcx_tables.type_dependent_defs[hir_id])
    ELSE w

resolve_node_type(w, hir_id) ==
    IF w.fatal THEN w ELSE write_resolved_ty(resolve_ty(w, node_ty(w, hir_id)), hir_id)

write_resolved_substs(r, hir_id) ==
    CASE r.w.fatal -> r.w
      [] substs_needs_infer(r.val) -> Panic(r.w)
      [] OTHER -> insert(r.w, "node_substs", hir_id, r.val)

resolve_node_substs(w, hir_id) ==
    IF w.fatal \/ hir_id \notin DOMAIN w.fcx_tables.node_substs
    THEN w
    ELSE write_resolved_substs(resolve_substs(w, w.fcx_tables.node_substs[hir_id]), hir_id)

visit_node_id(w, hir_id) ==
    resolve_node_substs(
        resolve_node_type(
            visit_adjustments(export_type_dependent_def(w, hir_id), hir_id),
            hir_id),
        hir_id)

RECURSIVE visit_node_ids(_, _)
visit_node_ids(w, ids) ==
    IF ids = << >> \/ w.fatal
    THEN w
    ELSE visit_node_ids(visit_node_id(w, node_to_hir_id(Head(ids))), Tail(ids))

(***************************************************************************)
(* The visitor (impl Visitor for WritebackCx).  The walk is kept as a      *)
(* stack of pending visits; a visit returns the state it leaves and the    *)
(* visits its intravisit::walk_* call makes, in order.                     *)
(***************************************************************************)
VisitItem(v, id) == [visit |-> v, id |-> id]

Visited(w, push) == [w |-> w, push |-> push]

\* the visitor method intravisit dispatches node n to
ItemOf(hir, n) ==
    VisitItem(CASE hir[n].kind = "Expr" -> "expr"
                [] hir[n].kind = "Pat" -> "pat"
                [] hir[n].kind = "Block" -> "block"
                [] hir[n].kind = "Local" -> "local"
                [] OTHER -> "ty",
              n)

\* intravisit::walk_expr, walk_block, walk_pat, walk_local, walk_ty: the
\* children, each handed to its visitor method (a closure's body is a nested
\* body, which NestedVisitorMap::None does not enter)
walk(hir, n) == [i \in 1..Len(hir[n].kids) |-> ItemOf(hir, hir[n].kids[i])]

\* Visitor::visit_body = intravisit::walk_body: each argument's pattern,
\* then the body's value
walk_body(args, value) ==
    [i \in 1..Len(args) |-> VisitItem("pat", args[i].pat)] \o <<VisitItem("expr", value)>>

arg_hir_ids(args) == [i \in 1..Len(args) |-> args[i].hir_id]

\* a traversal that enters a closure's body twice
visit_closure_body_twice(w, e) ==
    IF w.hir[e].node = "ExprClosure"
    THEN Visited(visit_node_ids(w, arg_hir_ids(w.hir[e].args)),
                 walk_body(w.hir[e].args, w.hir[e].value)
                 \o walk_body(w.hir[e].args, w.hir[e].value) \o walk(w.hir, e))
    ELSE Visited(w, walk(w.hir, e))

\* if let hir::ExprClosure(..) = e.node { .. }, then intravisit::walk_expr
visit_closure_body(w, e) ==
    IF w.hir[e].node = "ExprClosure"
    THEN Visited(visit_node_ids(w, arg_hir_ids(w.hir[e].args)),
                 walk_body(w.hir[e].args, w.hir[e].value) \o walk(w.hir, e))
    ELSE Visited(w, walk(w.hir, e))

visit_expr(w, e) ==
    visit_closure_body(visit_node_id(fix_scalar_builtin_expr(w, e), node_to_hir_id(e)), e)

visit_block(w, b) == Visited(visit_node_id(w, node_to_hir_id(b)), walk(w.hir, b))

\* hir::PatKind::Binding(..) => the binding mode, .expect("missing binding mode")
write_binding_mode(w, p, id) ==
    CASE w.hir[p].node # "Binding" -> w
      [] id \in DOMAIN w.fcx_tables.pat_binding_modes ->
           insert(w, "pat_binding_modes", id, w.fcx_tables.pat_binding_modes[id])
      [] OTHER -> Panic(w)

visit_pat(w, p) ==
    Visited(visit_node_id(visit_pat_adjustments(write_binding_mode(w, p, node_to_hir_id(p)),
                                                node_to_hir_id(p)),
                          node_to_hir_id(p)),
            walk(w.hir, p))

\* visit_local without the write of the local's own type
visit_local_walk_only(w, l) == Visited(w, walk(w.hir, l))

\* visit_local: intravisit::walk_local first, the local's own type after it
visit_local(w, l) == Visited(w, walk(w.hir, l) \o <<VisitItem("local_exit", l)>>)

visit_local_exit(w, l) ==
    Visited(write_resolved_ty(resolve_ty(w, local_ty(w, l)), node_to_hir_id(l)), << >>)

\* visit_ty: the type nodes of the bodies modelled have no type nodes below
\* them, so intravisit::walk_ty visits nothing before the write
visit_ty(w, t) ==
    Visited(write_resolved_ty(resolve_ty(w, node_ty(w, node_to_hir_id(t))), node_to_hir_id(t)),
            walk(w.hir, t))

visit(w, item) ==
    CASE item.visit = "expr" -> visit_expr(w, item.id)
      [] item.visit = "block" -> visit_block(w, item.id)
      [] item.visit = "pat" -> visit_pat(w, item.id)
      [] item.visit = "local" -> visit_local(w, item.id)
      [] item.visit = "local_exit" -> visit_local_exit(w, item.id)
      [] OTHER -> visit_ty(w, item.id)

(***************************************************************************)
(* The side-table passes.                                                  *)
(***************************************************************************)
RECURSIVE SortedKeys(_)
SortedKeys(S) ==
    IF S = {}
    THEN << >>
    ELSE LET k == CHOOSE x \in S : \A y \in S : x <= y IN <<k>> \o SortedKeys(S \ {k})

RECURSIVE UpvarKeys(_)
UpvarKeys(S) ==
    IF S = {}
    THEN << >>
    ELSE LET k == CHOOSE x \in S : \A y \in S : x.var_id <= y.var_id
         IN <<k>> \o UpvarKeys(S \ {k})

\* ty::UpvarCapture::ByRef(ty::UpvarBorrow { kind: upvar_borrow.kind, region: r })
insert_by_ref(r, upvar_id, upvar_capture) ==
    IF r.w.fatal
    THEN r.w
    ELSE insert(r.w, "upvar_capture_map", upvar_id, [upvar_capture EXCEPT !.region = r.val])

upvar_capture_entry(w, upvar_id, upvar_capture) ==
    IF upvar_capture.by_ref
    THEN insert_by_ref(resolve_region(w, upvar_capture.region), upvar_id, upvar_capture)
    ELSE insert(w, "upvar_capture_map", upvar_id, upvar_capture)

RECURSIVE upvar_loop(_, _)
upvar_loop(w, keys) ==
    IF keys = << >> \/ w.fatal
    THEN w
    ELSE upvar_loop(
             upvar_capture_entry(w, Head(keys), w.fcx_tables.upvar_capture_map[Head(keys)]),
             Tail(keys))

visit_upvar_borrow_map(w) ==
    upvar_loop(w, UpvarKeys(DOMAIN w.fcx_tables.upvar_capture_map))

\* for (&id, v) in fcx_tables.<map>().iter(): re-key with the common owner,
\* resolve the value (a list of types), insert
RECURSIVE resolve_loop(_, _, _)
resolve_loop(w, map, keys) ==
    IF keys = << >> \/ w.fatal
    THEN w
    ELSE resolve_loop(
             insert_resolved(resolve_tys(w, w.fcx_tables[map][Head(keys)]), map,
                             HirId(w.fcx_tables.local_id_root, Head(keys))),
             map, Tail(keys))

\* the copying loop, had it keyed its entries with another owner than the
\* common local id root
RECURSIVE copy_loop_other_owner(_, _, _)
copy_loop_other_owner(w, map, keys) ==
    IF keys = << >> \/ w.fatal
    THEN w
    ELSE copy_loop_other_owner(
             insert(w, map, HirId(w.fcx_tables.local_id_root + 1, Head(keys)),
                    w.fcx_tables[map][Head(keys)]),
             map, Tail(keys))

\* the same loop for values that are copied as they are
RECURSIVE copy_loop(_, _, _)
copy_loop(w, map, keys) ==
    IF keys = << >> \/ w.fatal
    THEN w
    ELSE copy_loop(insert(w, map, HirId(w.fcx_tables.local_id_root, Head(keys)),
                          w.fcx_tables[map][Head(keys)]),
                   map, Tail(keys))

visit_closures(w) ==
    copy_loop(resolve_loop(w, "closure_tys", SortedKeys(DOMAIN w.fcx_tables.closure_tys)),
              "closure_kinds", SortedKeys(DOMAIN w.fcx_tables.closure_kinds))

visit_cast_types(w) ==
    copy_loop(w, "cast_kinds", SortedKeys(DOMAIN w.fcx_tables.cast_kinds))

visit_free_region_map(w) ==
    IF \E p \in w.fcx_tables.free_region_map :
          region_needs_infer(p[1]) \/ region_needs_infer(p[2])
    THEN Panic(w)
    ELSE [w EXCEPT !.tables.free_region_map = w.fcx_tables.free_region_map]

visit_generator_interiors(w) ==
    resolve_loop(w, "generator_interiors",
                 SortedKeys(DOMAIN w.fcx_tables.generator_interiors))

\* a generator signature is None (no types) or Some(GenSig {yield_ty, return_ty})
visit_generator_sigs(w) ==
    resolve_loop(w, "generator_sigs", SortedKeys(DOMAIN w.fcx_tables.generator_sigs))

visit_liberated_fn_sigs(w) ==
    resolve_loop(w, "liberated_fn_sigs", SortedKeys(DOMAIN w.fcx_tables.liberated_fn_sigs))

visit_fru_field_types(w) ==
    resolve_loop(w, "fru_field_types", SortedKeys(DOMAIN w.fcx_tables.fru_field_types))

(***************************************************************************)
(* The opaque-type validator (visit_anon_types).                           *)
(***************************************************************************)
AllowedRegionKinds == {"ReStatic", "ReEarlyBound", "ReEmpty"}

DisallowedRegionKinds == {"ReFree", "ReLateBound", "ReScope", "ReSkolemized"}

\* the closure, had it reported the invalid regions and kept them
anon_region_keeps(s, r) ==
    CASE r.k \in AllowedRegionKinds -> [sess |-> s, val |-> r, bug |-> FALSE]
      [] r.k \in DisallowedRegionKinds ->
           [sess |-> span_err_E0564(s), val |-> r, bug |-> FALSE]
      [] OTHER -> [sess |-> s, val |-> r, bug |-> TRUE]

\* the closure, had it replaced region variables and erased regions as well
anon_region_no_bug(s, r) ==
    CASE r.k \in AllowedRegionKinds -> [sess |-> s, val |-> r, bug |-> FALSE]
      [] r.k \in DisallowedRegionKinds ->
           [sess |-> span_err_E0564(s), val |-> ReStatic, bug |-> FALSE]
      [] OTHER -> [sess |-> s, val |-> ReStatic, bug |-> FALSE]

\* the closure handed to fold_regions, on one region: the session it leaves,
\* the region it returns, and whether it ended in span_bug!
anon_region(s, r) ==
    CASE r.k \in AllowedRegionKinds -> [sess |-> s, val |-> r, bug |-> FALSE]
      [] r.k \in DisallowedRegionKinds ->
           [sess |-> span_err_E0564(s), val |-> ReStatic, bug |-> FALSE]
      [] OTHER -> [sess |-> s, val |-> r, bug |-> TRUE]

PushRegion(acc, f) == [sess |-> f.sess, val |-> Append(acc.val, f.val), bug |-> f.bug]

\* gcx.fold_regions(&inside_ty, .., closure): the closure is applied to the
\* regions of the type, one after the other, until one ends in span_bug!
RECURSIVE anon_fold_regions_from(_, _)
anon_fold_regions_from(acc, rs) ==
    IF rs = << >> \/ acc.bug
    THEN acc
    ELSE anon_fold_regions_from(PushRegion(acc, anon_region(acc.sess, Head(rs))), Tail(rs))

anon_fold_regions(s, rs) ==
    anon_fold_regions_from([sess |-> s, val |-> << >>, bug |-> FALSE], rs)

\* self.tables.node_types_mut().insert(hir_id, outside_ty)
anon_insert(w, node_id, inside_ty, f) ==
    IF f.bug
    THEN Panic([w EXCEPT !.sess = f.sess])
    ELSE insert([w EXCEPT !.sess = f.sess], "node_types", node_to_hir_id(node_id),
                [inside_ty EXCEPT !.rs = f.val])

anon_validate(r, node_id) ==
    IF r.w.fatal
    THEN r.w
    ELSE anon_insert(r.w, node_id, r.val, anon_fold_regions(r.w.sess, r.val.rs))

\* the insert of the registered type as it is, unresolved and unvalidated
anon_type_unresolved(w, node_id) ==
    insert(w, "node_types", node_to_hir_id(node_id), w.anon_types[node_id])

\* a validator that skips an occurrence once the session has errors
anon_type_unless_errors(w, node_id) ==
    IF has_errors(w.sess)
    THEN w
    ELSE anon_validate(resolve_ty(w, w.anon_types[node_id]), node_id)

\* the body of the loop of visit_anon_types
anon_type(w, node_id) == anon_validate(resolve_ty(w, w.anon_types[node_id]), node_id)

\* order: the order in which the registry (a hash map) is iterated
RECURSIVE visit_anon_types(_, _)
visit_anon_types(w, order) ==
    IF order = << >> \/ w.fatal
    THEN w
    ELSE visit_anon_types(anon_type(w, Head(order)), Tail(order))

(***************************************************************************)
(* The end of resolve_type_vars_in_body.                                   *)
(***************************************************************************)
\* FnCtxt::is_tainted_by_errors
is_tainted_by_errors(w) == w.sess.err_count > w.err_count_on_creation

\* mem::replace(&mut self.tables.borrow_mut().used_trait_imports, DefIdSet())
move_used_trait_imports(w) ==
    [w EXCEPT !.tables.used_trait_imports = w.fcx_tables.used_trait_imports,
              !.fcx_tables.used_trait_imports = {}]

\* the end of resolve_type_vars_in_body: the used trait imports, then
\* tainted_by_errors
finish(w) ==
    [move_used_trait_imports(w) EXCEPT !.tables.tainted_by_errors = is_tainted_by_errors(w)]

(***************************************************************************)
(* The bodies finalized.  One function body                                *)
(*                                                                         *)
(*     fn f(p2 /*arg 1*/) -> impl Trait /*15, 16*/ {      // 3, block 4    *)
(*         let p6: T7 = e9 <op> e10;                      // local 5, 8    *)
(*         |_ /*arg 12, pat 13*/| e14                     // closure 11    *)
(*     }                                                                   *)
(*                                                                         *)
(* with <op> a by-reference binary operator (==), a by-value one (+), a    *)
(* compound assignment (+=) or a unary operator (-e9).                     *)
(***************************************************************************)
HirNode(kind, node, by_value, kids, args, value) ==
    [kind |-> kind, node |-> node, by_value |-> by_value, kids |-> kids,
     args |-> args, value |-> value]

Arg(hir_id, pat) == [hir_id |-> hir_id, pat |-> pat]

OpKinds == {"BinaryByRef", "BinaryByValue", "AssignOp", "UnaryNeg"}

BodyNodes(op) == (1..14) \ (IF op = "UnaryNeg" THEN {10} ELSE {})

Hir(op) ==
    [n \in BodyNodes(op) |->
        CASE n \in {1, 12} -> HirNode("Arg", "Arg", FALSE, << >>, << >>, 0)
          [] n \in {2, 6} -> HirNode("Pat", "Binding", FALSE, << >>, << >>, 0)
          [] n = 13 -> HirNode("Pat", "Wild", FALSE, << >>, << >>, 0)
          [] n = 3 -> HirNode("Expr", "ExprBlock", FALSE, <<4>>, << >>, 0)
          [] n = 4 -> HirNode("Block", "Block", FALSE, <<5, 11>>, << >>, 0)
          [] n = 5 -> HirNode("Local", "Local", FALSE, <<6, 7, 8>>, << >>, 0)
          [] n = 7 -> HirNode("Ty", "TyPath", FALSE, << >>, << >>, 0)
          [] n = 8 /\ op = "BinaryByRef" ->
               HirNode("Expr", "ExprBinary", FALSE, <<9, 10>>, << >>, 0)
          [] n = 8 /\ op = "BinaryByValue" ->
               HirNode("Expr", "ExprBinary", TRUE, <<9, 10>>, << >>, 0)
          [] n = 8 /\ op = "AssignOp" ->
               HirNode("Expr", "ExprAssignOp", TRUE, <<9, 10>>, << >>, 0)
          [] n = 8 -> HirNode("Expr", "ExprUnaryNeg", FALSE, <<9>>, << >>, 0)
          [] n = 11 -> HirNode("Expr", "ExprClosure", FALSE, << >>, <<Arg(12, 13)>>, 14)
          [] OTHER -> HirNode("Expr", "ExprPath", FALSE, << >>, << >>, 0)]

\* body.arguments and body.value of the function's body
BodyArguments == <<Arg(1, 2)>>
BodyValue == 3

\* the nodes of the registry, outside the body (the `impl Trait` of the signature)
AnonNodes == {15, 16}

\* an adjustment sequence of n steps: dereferences, then an auto-borrow
AdjSeq(n) ==
    [i \in 1..n |->
        IF i = n
        THEN Adjustment("Borrow", ReVar(((i - 1) % NRegionVars) + 1),
                        TAdt(ParamVar(1), << >>))
        ELSE Adjustment("Deref", ReStatic, TAdt(ParamInt, << >>))]

UpvarId(var_id, closure_expr_id) == [var_id |-> var_id, closure_expr_id |-> closure_expr_id]

\* The in-progress tables of a scenario sc:
\*   op        the operator of expression 8
\*   lhs_ty, rhs_ty    the tentative types of the operands 9 and 10
\*   lhs_adj, rhs_adj  the lengths of their adjustment sequences (0: none)
\*   overload  0: no method recorded for 8; 1: a method; 2: and substitutions
\*   side_ty   a type of the closure and generator signatures
ExprTy(sc) == IF sc.op = "BinaryByRef" THEN TInt ELSE sc.lhs_ty

NodeTy(sc, n) ==
    CASE n \in {1, 2} -> TAdt(NoParam, <<ReVar(1)>>)
      [] n \in {3, 4, 14} -> TInt
      [] n \in {5, 6, 7, 8} -> ExprTy(sc)
      [] n = 9 -> sc.lhs_ty
      [] n = 10 -> sc.rhs_ty
      [] n = 11 -> TAdt(NoParam, << >>)
      [] OTHER -> TVar(1)

FcxTables(sc) ==
    LET nodes == BodyNodes(sc.op)
        adj(n) == CASE n = 9 -> AdjSeq(sc.lhs_adj)
                    [] n = 10 -> AdjSeq(sc.rhs_adj)
                    [] OTHER -> <<Adjustment("Borrow", ReVar(2), TVar(1))>>
        def(n) == IF n = 8 THEN "method" ELSE "assoc_item"
        substs(n) == IF n = 8
                     THEN <<KindTy(sc.lhs_ty), KindRe(ReVar(2))>>
                     ELSE <<KindRe(ReVar(1)), KindTy(TVar(1))>>
        bm(n) == IF n = 2 THEN "BindByValue" ELSE "BindByReference"
        pat_adj(n) == <<TAdt(NoParam, <<ReVar(1)>>)>>
        upvar(k) == IF k.var_id = 2
                    THEN [by_ref |-> FALSE, kind |-> "none", region |-> ReStatic]
                    ELSE [by_ref |-> TRUE, kind |-> "ImmBorrow", region |-> ReVar(2)]
        closure_ty(n) == <<sc.side_ty, TInt>>
        closure_kind(n) == "FnMut"
        cast_kind(n) == "NumericCast"
        fn_sig(n) == <<TAdt(NoParam, <<ReVar(1)>>), TInt>>
        fru(n) == <<TVar(1), TInt>>
        gen_sig(n) == IF n = 11 THEN << >> ELSE <<TInt, sc.side_ty>>
        interior(n) == <<TAdt(ParamVar(1), << >>)>>
    IN
    [local_id_root |-> BodyOwner,
     node_types |-> [k \in Ids(nodes) |-> NodeTy(sc, k.local_id)],
     node_substs |->
        [k \in Ids((IF sc.overload = 2 THEN {8} ELSE {}) \cup {14}) |-> substs(k.local_id)],
     adjustments |->
        [k \in Ids(((IF sc.lhs_adj > 0 THEN {9} ELSE {})
                     \cup (IF sc.rhs_adj > 0 THEN {10} ELSE {}) \cup {14}) \cap nodes) |->
            adj(k.local_id)],
     type_dependent_defs |->
        [k \in Ids((IF sc.overload > 0 THEN {8} ELSE {}) \cup {14}) |-> def(k.local_id)],
     pat_binding_modes |-> [k \in Ids({2, 6}) |-> bm(k.local_id)],
     pat_adjustments |-> [k \in Ids({13}) |-> pat_adj(k.local_id)],
     upvar_capture_map |-> [k \in {UpvarId(v, 11) : v \in {2, 6}} |-> upvar(k)],
     closure_tys |-> [k \in {11} |-> closure_ty(k)],
     closure_kinds |-> [k \in {11} |-> closure_kind(k)],
     cast_kinds |-> [k \in {14} |-> cast_kind(k)],
     liberated_fn_sigs |-> [k \in {3} |-> fn_sig(k)],
     fru_field_types |-> [k \in {14} |-> fru(k)],
     generator_sigs |-> [k \in {11, 14} |-> gen_sig(k)],
     generator_interiors |-> [k \in {11} |-> interior(k)],
     used_trait_imports |-> {"Trait1", "Trait2"},
     free_region_map |-> {<<ReFree, ReStatic>>},
     tainted_by_errors |-> FALSE]

World(sc) ==
    [hir |-> Hir(sc.op),
     fcx_tables |-> FcxTables(sc),
     locals |-> [n \in {5} |-> ExprTy(sc)],
     anon_types |-> sc.registry,
     err_count_on_creation |-> sc.errs.on_creation,
     tables |-> EmptyTables(BodyOwner),
     sess |-> [err_count |-> sc.errs.err_count, E0282 |-> 0, E0564 |-> 0,
               ty_errs |-> 0, re_errs |-> 0],
     fatal |-> FALSE,
     overwritten |-> {}]

(***************************************************************************)
(* The inputs a run starts from.                                           *)
(***************************************************************************)
Scenario(op, lhs_ty, rhs_ty, lhs_adj, rhs_adj, overload, side_ty, errs, registry) ==
    [op |-> op, lhs_ty |-> lhs_ty, rhs_ty |-> rhs_ty, lhs_adj |-> lhs_adj,
     rhs_adj |-> rhs_adj, overload |-> overload, side_ty |-> side_ty, errs |-> errs,
     registry |-> registry]

\* errors recorded in the session before writeback, and how many of them
\* before the FnCtxt was created
Errs ==
    {[err_count |-> 0, on_creation |-> 0], [err_count |-> 1, on_creation |-> 0],
     [err_count |-> 1, on_creation |-> 1]}

SideTys == {TInt, TVar(2)}

\* the regions of a witness: any one region, or up to MaxWitnessRegions
\* regions that the validator keeps, replaces or rejects
RegionSeqs ==
    {<<r>> : r \in Regions}
        \cup UNION {[1..n -> {ReEarlyBound, ReFree, ReErased}] : n \in 0..MaxWitnessRegions}

WitnessTys ==
    {TAdt(NoParam, rs) : rs \in RegionSeqs} \cup {TVar(2), TAdt(ParamVar(2), <<ReFree>>)}

\* bodies that vary the operator expression, its operands and its overload
OperatorScenarios ==
    {Scenario(op, l, r, la, ra, ov, TInt, e, EmptyMap) :
        op \in OpKinds,
        l \in {TInt, TAdt(NoParam, << >>), TAdt(NoParam, <<ReVar(2)>>)}
                \cup {TVar(v) : v \in 1..NTyVars},
        r \in {TInt, TAdt(ParamVar(2), << >>)},
        la \in 0..MaxAdj, ra \in {0, MaxAdj}, ov \in 0..2, e \in Errs}

\* bodies that vary the opaque types of the signature: one occurrence with
\* any witness, or two occurrences
OpaqueScenarios ==
    {Scenario("BinaryByRef", t, TInt, 1, 1, 2, t, e, reg) :
        t \in SideTys, e \in Errs,
        reg \in {[n \in {15} |-> wt] : wt \in WitnessTys}
                \cup {[n \in AnonNodes |-> IF n = 15 THEN wt ELSE u] :
                        wt \in {x \in WitnessTys : Len(x.rs) <= 1}
                               \cup {TAdt(NoParam, <<ReEarlyBound, ReFree>>)},
                        u \in {TAdt(NoParam, <<ReScope>>), TAdt(NoParam, <<ReErased>>)}}}

\* the scenarios the passes are run on in every order
ReorderScenarios ==
    {Scenario("BinaryByRef", t, TInt, 1, 1, 2, t, e, [n \in {15} |-> wt]) :
        t \in SideTys,
        e \in {[err_count |-> 0, on_creation |-> 0], [err_count |-> 1, on_creation |-> 1]},
        wt \in {TAdt(NoParam, <<ReStatic, ReFree>>), TAdt(NoParam, <<ReErased>>), TVar(2)}}

\* the orders a map with key set S can be iterated in
Orders(S) ==
    {o \in [1..Cardinality(S) -> S] : \A i, j \in 1..Cardinality(S) : o[i] = o[j] => i = j}

(***************************************************************************)
(* resolve_type_vars_in_body, step by step.                                *)
(***************************************************************************)
DriverOrder ==
    <<"arguments", "body", "upvar_borrow_map", "closures", "liberated_fn_sigs",
      "fru_field_types", "anon_types", "cast_types", "free_region_map",
      "generator_sigs", "generator_interiors", "finish">>

Steps == {DriverOrder[i] : i \in 1..Len(DriverOrder)}

\* a step other than the walk of the body; order is used by anon_types only
RunStep(w, step, order) ==
    CASE step = "arguments" -> visit_node_ids(w, arg_hir_ids(BodyArguments))
      [] step = "upvar_borrow_map" -> visit_upvar_borrow_map(w)
      [] step = "closures" -> visit_closures(w)
      [] step = "liberated_fn_sigs" -> visit_liberated_fn_sigs(w)
      [] step = "fru_field_types" -> visit_fru_field_types(w)
      [] step = "anon_types" -> visit_anon_types(w, order)
      [] step = "cast_types" -> visit_cast_types(w)
      [] step = "free_region_map" -> visit_free_region_map(w)
      [] step = "generator_sigs" -> visit_generator_sigs(w)
      [] step = "generator_interiors" -> visit_generator_interiors(w)
      [] OTHER -> finish(w)

\* wbcx.visit_body(body): the whole walk
RECURSIVE Traverse(_, _)
Traverse(r, st) ==
    IF r.push \o st = << >> \/ r.w.fatal
    THEN r.w
    ELSE Traverse(visit(r.w, Head(r.push \o st)), Tail(r.push \o st))

RECURSIVE RunSteps(_, _, _)
RunSteps(w, steps, order) ==
    IF steps = << >> \/ w.fatal
    THEN w
    ELSE RunSteps(IF Head(steps) = "body"
                  THEN Traverse(Visited(w, walk_body(BodyArguments, BodyValue)), << >>)
                  ELSE RunStep(w, Head(steps), order),
                  Tail(steps), order)

\* the run of resolve_type_vars_in_body from w, its steps in the order of the source
DriverRun(w, order) == RunSteps(w, DriverOrder, order)

VARIABLES
    hir, fcx_tables, locals, anon_types, err_count_on_creation,
    tables, sess, fatal, overwritten,
    stack,       \* the visits the walk of the body still has to make
    steps_done,  \* the steps of resolve_type_vars_in_body that have run
    published,   \* << >>, or <<t>> once tcx.alloc_tables(t) has been called
    input        \* the state the run started from

vars ==
    <<hir, fcx_tables, locals, anon_types, err_count_on_creation, tables, sess, fatal,
      overwritten, stack, steps_done, published, input>>

W ==
    [hir |-> hir, fcx_tables |-> fcx_tables, locals |-> locals, anon_types |-> anon_types,
     err_count_on_creation |-> err_count_on_creation, tables |-> tables, sess |-> sess,
     fatal |-> fatal, overwritten |-> overwritten]

Becomes(w) ==
    /\ hir' = w.hir
    /\ fcx_tables' = w.fcx_tables
    /\ locals' = w.locals
    /\ anon_types' = w.anon_types
    /\ err_count_on_creation' = w.err_count_on_creation
    /\ tables' = w.tables
    /\ sess' = w.sess
    /\ fatal' = w.fatal
    /\ overwritten' = w.overwritten

InitOf(scenarios) ==
    \E sc \in scenarios :
        /\ input = World(sc)
        /\ hir = input.hir
        /\ fcx_tables = input.fcx_tables
        /\ locals = input.locals
        /\ anon_types = input.anon_types
        /\ err_count_on_creation = input.err_count_on_creation
        /\ tables = input.tables
        /\ sess = input.sess
        /\ fatal = input.fatal
        /\ overwritten = input.overwritten
        /\ stack = << >>
        /\ steps_done = {}
        /\ published = << >>

Init == InitOf(OperatorScenarios \cup OpaqueScenarios)

Done == published # << >>

Running == ~fatal /\ "finish" \notin steps_done

\* the step is the next one of the source's order
InOrder(step) ==
    \E i \in 1..Len(DriverOrder) :
        DriverOrder[i] = step /\ steps_done = {DriverOrder[j] : j \in 1..(i - 1)}

\* one step of resolve_type_vars_in_body, which leaves the state w
Pass(step, w) ==
    /\ Running
    /\ stack = << >>
    /\ step \notin steps_done
    /\ Becomes(w)
    /\ steps_done' = steps_done \cup {step}
    /\ UNCHANGED <<stack, published, input>>

VisitArguments == Pass("arguments", visit_node_ids(W, arg_hir_ids(BodyArguments)))

VisitBody ==
    /\ Running
    /\ stack = << >>
    /\ "arguments" \in steps_done
    /\ "body" \notin steps_done
    /\ stack' = walk_body(BodyArguments, BodyValue)
    /\ steps_done' = steps_done \cup {"body"}
    /\ UNCHANGED <<hir, fcx_tables, locals, anon_types, err_count_on_creation, tables,
                   sess, fatal, overwritten, published, input>>

\* the visit on top of the stack, which leaves r.w and pushes r.push
Visit(kind, r) ==
    /\ Running
    /\ stack # << >>
    /\ Head(stack).visit = kind
    /\ Becomes(r.w)
    /\ stack' = r.push \o Tail(stack)
    /\ UNCHANGED <<steps_done, published, input>>

VisitExpr == Visit("expr", visit_expr(W, Head(stack).id))

VisitBlock == Visit("block", visit_block(W, Head(stack).id))

VisitPat == Visit("pat", visit_pat(W, Head(stack).id))

VisitLocal == Visit("local", visit_local(W, Head(stack).id))

VisitLocalExit == Visit("local_exit", visit_local_exit(W, Head(stack).id))

VisitTy == Visit("ty", visit_ty(W, Head(stack).id))

VisitUpvarBorrowMap == Pass("upvar_borrow_map", visit_upvar_borrow_map(W))

VisitClosures == Pass("closures", visit_closures(W))

VisitLiberatedFnSigs == Pass("liberated_fn_sigs", visit_liberated_fn_sigs(W))

VisitFruFieldTypes == Pass("fru_field_types", visit_fru_field_types(W))

VisitAnonTypes ==
    \E order \in Orders(DOMAIN anon_types) : Pass("anon_types", visit_anon_types(W, order))

VisitCastTypes == Pass("cast_types", visit_cast_types(W))

VisitFreeRegionMap == Pass("free_region_map", visit_free_region_map(W))

VisitGeneratorSigs == Pass("generator_sigs", visit_generator_sigs(W))

VisitGeneratorInteriors == Pass("generator_interiors", visit_generator_interiors(W))

\* the used trait imports, tainted_by_errors, tcx.alloc_tables(wbcx.tables)
Finish ==
    /\ Running
    /\ stack = << >>
    /\ steps_done = Steps \ {"finish"}
    /\ Becomes(finish(W))
    /\ steps_done' = Steps
    /\ published' = <<tables'>>
    /\ UNCHANGED <<stack, input>>

Next ==
    \/ InOrder("arguments") /\ VisitArguments
    \/ VisitBody
    \/ VisitExpr
    \/ VisitBlock
    \/ VisitPat
    \/ VisitLocal
    \/ VisitLocalExit
    \/ VisitTy
    \/ InOrder("upvar_borrow_map") /\ VisitUpvarBorrowMap
    \/ InOrder("closures") /\ VisitClosures
    \/ InOrder("liberated_fn_sigs") /\ VisitLiberatedFnSigs
    \/ InOrder("fru_field_types") /\ VisitFruFieldTypes
    \/ InOrder("anon_types") /\ VisitAnonTypes
    \/ InOrder("cast_types") /\ VisitCastTypes
    \/ InOrder("free_region_map") /\ VisitFreeRegionMap
    \/ InOrder("generator_sigs") /\ VisitGeneratorSigs
    \/ InOrder("generator_interiors") /\ VisitGeneratorInteriors
    \/ Finish

Spec == Init /\ [][Next]_vars

\* the side-table passes and the opaque-type validator in any order, before
\* or after the walk of the body
NextReorder ==
    \/ InOrder("arguments") /\ VisitArguments
    \/ VisitBody
    \/ VisitExpr
    \/ VisitBlock
    \/ VisitPat
    \/ VisitLocal
    \/ VisitLocalExit
    \/ VisitTy
    \/ VisitUpvarBorrowMap
    \/ VisitClosures
    \/ VisitLiberatedFnSigs
    \/ VisitFruFieldTypes
    \/ VisitAnonTypes
    \/ VisitCastTypes
    \/ VisitFreeRegionMap
    \/ VisitGeneratorSigs
    \/ VisitGeneratorInteriors
    \/ Finish

SpecReorder == InitOf(ReorderScenarios) /\ [][NextReorder]_vars

(***************************************************************************)
(* Properties.  input is the state the run started from, published[1] the  *)
(* table handed to tcx.alloc_tables.                                       *)
(***************************************************************************)
\* the type the walk reads for body node n before it finalizes it
TentativeTy(n) ==
    IF input.hir[n].kind = "Local"
    THEN input.locals[n]
    ELSE input.fcx_tables.node_types[node_to_hir_id(n)]

\* what a type, a region, a generic argument has to be stored as
StoredTy(t) == IF fully_resolve_ty(t).ok THEN fully_resolve_ty(t).val ELSE TErr

StoredRegion(r) == IF fully_resolve_region(r).ok THEN fully_resolve_region(r).val ELSE ReStatic

StoredKind(g) ==
    IF g.kind = "type" THEN KindTy(StoredTy(g.ty)) ELSE KindRe(StoredRegion(g.re))

\* a type variable without a value occurs in t
HasUnresolvableTyVar(t) ==
    \/ t.k = "var" /\ TyVarValue(t.v).k = "var"
    \/ t.arg.k = "var" /\ TyVarValue(t.arg.v).k = "var"

AmbiguousNodes == {n \in DOMAIN input.hir : HasUnresolvableTyVar(TentativeTy(n))}

\* C1: in the table of a run that completes, no node type and no
\* substitution list holds an inference variable; each node type is the
\* resolved tentative type, or the error type where fully_resolve fails, and
\* each generic argument the resolved one, a failed type being the error
\* type and a failed region 'static.
C1_NoInferenceVariable ==
    Done =>
        /\ \A id \in DOMAIN published[1].node_types :
              ~ty_needs_infer(published[1].node_types[id])
        /\ \A id \in DOMAIN published[1].node_substs :
              ~substs_needs_infer(published[1].node_substs[id])
        /\ \A n \in DOMAIN input.hir :
              published[1].node_types[node_to_hir_id(n)] = StoredTy(TentativeTy(n))
        /\ \A id \in DOMAIN published[1].node_substs :
              published[1].node_substs[id] =
                  [i \in DOMAIN input.fcx_tables.node_substs[id] |->
                      StoredKind(input.fcx_tables.node_substs[id][i])]

C1_Witness ==
    /\ Done
    /\ node_to_hir_id(8) \in DOMAIN published[1].node_substs
    /\ input.fcx_tables.node_substs[node_to_hir_id(8)] = <<KindTy(TVar(2)), KindRe(ReVar(2))>>
    /\ published[1].node_substs[node_to_hir_id(8)] = <<KindTy(TErr), KindRe(ReStatic)>>
    /\ published[1].node_types[node_to_hir_id(9)] = TErr
    /\ 15 \in DOMAIN input.anon_types
    /\ ty_needs_infer(input.anon_types[15])

\* C2: once a node whose tentative type holds an unresolvable type variable
\* has been finalized, its type is the error type and the run has emitted
\* exactly one E0282 if it started without errors and none if it started
\* with an error recorded; a run that completes has finalized every such
\* node.
C2_OneAmbiguityDiagnostic ==
    /\ \A n \in AmbiguousNodes :
          node_to_hir_id(n) \in DOMAIN tables.node_types =>
              /\ tables.node_types[node_to_hir_id(n)] = TErr
              /\ sess.E0282 = (IF input.sess.err_count = 0 THEN 1 ELSE 0)
    /\ Done => Ids(AmbiguousNodes) \subseteq DOMAIN published[1].node_types

C2_Witness ==
    /\ Done
    /\ input.sess.err_count = 0
    /\ Cardinality(AmbiguousNodes) >= 2
    /\ sess.ty_errs >= 2
    /\ sess.E0282 = 1
    /\ \A n \in AmbiguousNodes : published[1].node_types[node_to_hir_id(n)] = TErr

\* expression 8 is a binary expression with a by-reference operator whose
\* operand types both resolve to scalars
ScalarByRefBinary ==
    /\ input.hir[8].node = "ExprBinary"
    /\ ~input.hir[8].by_value
    /\ \A n \in {9, 10} : is_scalar(resolve_type_vars_if_possible(TentativeTy(n)))

\* Tables::expr_adjustments: the adjustments of a node, none without an entry
ExprAdjustments(t, n) ==
    IF node_to_hir_id(n) \in DOMAIN t.adjustments
    THEN t.adjustments[node_to_hir_id(n)]
    ELSE << >>

\* C3 as stated: after finalization expression 8 has no overload and no
\* substitutions, and the adjustments of each operand are exactly one fewer
\* than those recorded for it before finalization.
C3_OneShorter ==
    Done /\ ScalarByRefBinary =>
        /\ node_to_hir_id(8) \notin DOMAIN published[1].type_dependent_defs
        /\ node_to_hir_id(8) \notin DOMAIN published[1].node_substs
        /\ \A n \in {9, 10} :
              Len(ExprAdjustments(published[1], n))
                  = Len(ExprAdjustments(input.fcx_tables, n)) - 1

\* C3 amended: after finalization expression 8 has no overload and no
\* substitutions; an operand with recorded adjustments keeps all of them but
\* the last, and an operand with none recorded has none.
C3_OneShorterWhereRecorded ==
    Done /\ ScalarByRefBinary =>
        /\ node_to_hir_id(8) \notin DOMAIN published[1].type_dependent_defs
        /\ node_to_hir_id(8) \notin DOMAIN published[1].node_substs
        /\ \A n \in {9, 10} :
              IF ExprAdjustments(input.fcx_tables, n) # << >>
              THEN /\ node_to_hir_id(n) \in DOMAIN published[1].adjustments
                   /\ Len(ExprAdjustments(published[1], n))
                          = Len(ExprAdjustments(input.fcx_tables, n)) - 1
                   /\ \A i \in DOMAIN ExprAdjustments(published[1], n) :
                          ExprAdjustments(published[1], n)[i].kind
                              = ExprAdjustments(input.fcx_tables, n)[i].kind
              ELSE ExprAdjustments(published[1], n) = << >>

C3_Witness ==
    /\ Done
    /\ ScalarByRefBinary
    /\ node_to_hir_id(8) \in DOMAIN input.fcx_tables.type_dependent_defs
    /\ node_to_hir_id(8) \in DOMAIN input.fcx_tables.node_substs
    /\ Len(ExprAdjustments(input.fcx_tables, 9)) = 2
    /\ Len(ExprAdjustments(published[1], 9)) = 1
    /\ ExprAdjustments(published[1], 9)[1].kind = "Deref"
    /\ ExprAdjustments(input.fcx_tables, 10) = << >>
    /\ ExprAdjustments(published[1], 10) = << >>

\* the resolved witness of occurrence n of the registry
ResolvedWitness(n) == StoredTy(input.anon_types[n])

KeptRegionKinds == {"ReStatic", "ReEarlyBound", "ReEmpty"}

ReplacedRegionKinds == {"ReFree", "ReLateBound", "ReScope", "ReSkolemized"}

InvalidRegionKinds == {"ReVar", "ReErased"}

RegionsOfKinds(t, kinds) == {i \in DOMAIN t.rs : t.rs[i].k \in kinds}

RECURSIVE OccurrencesOfKinds(_, _)
OccurrencesOfKinds(S, kinds) ==
    IF S = {}
    THEN 0
    ELSE LET n == CHOOSE x \in S : TRUE
         IN Cardinality(RegionsOfKinds(ResolvedWitness(n), kinds))
                + OccurrencesOfKinds(S \ {n}, kinds)

\* C4: in a run that completes, the witness written for every occurrence of
\* the registry is the resolved witness with 'static, early-bound and empty
\* regions kept and free, late-bound, scope and skolemized regions replaced
\* by 'static, and the number of E0564 diagnostics is the number of the
\* replaced regions, whatever errors were recorded before.
C4_WitnessRegions ==
    Done =>
        /\ \A n \in DOMAIN input.anon_types :
              /\ node_to_hir_id(n) \in DOMAIN published[1].node_types
              /\ published[1].node_types[node_to_hir_id(n)] =
                    [ResolvedWitness(n) EXCEPT
                        !.rs = [i \in DOMAIN @ |->
                                  CASE @[i].k \in KeptRegionKinds -> @[i]
                                    [] @[i].k \in ReplacedRegionKinds -> ReStatic
                                    [] OTHER -> Region("none", 0)]]
        /\ sess.E0564 = OccurrencesOfKinds(DOMAIN input.anon_types, ReplacedRegionKinds)

C4_Witness ==
    /\ Done
    /\ input.sess.err_count > 0
    /\ DOMAIN input.anon_types = AnonNodes
    /\ input.anon_types[15].rs = <<ReEarlyBound, ReFree>>
    /\ published[1].node_types[node_to_hir_id(15)].rs = <<ReEarlyBound, ReStatic>>
    /\ sess.E0564 = 2

\* the occurrences whose resolved witness mentions a region variable or an
\* erased region
InvalidOccurrences ==
    {n \in DOMAIN input.anon_types : RegionsOfKinds(ResolvedWitness(n), InvalidRegionKinds) # {}}

\* C5: when the resolved witness of an occurrence mentions a region variable
\* or an erased region, no table is ever published, no type is ever written
\* for that occurrence, the run has panicked once the validator has run, and
\* no more E0564 diagnostics are emitted than there are free, late-bound,
\* scope and skolemized regions in the witnesses.
C5_InvalidRegionIsFatal ==
    InvalidOccurrences # {} =>
        /\ ~Done
        /\ Ids(InvalidOccurrences) \cap DOMAIN tables.node_types = {}
        /\ "anon_types" \in steps_done => fatal
        /\ sess.E0564 <= OccurrencesOfKinds(DOMAIN input.anon_types, ReplacedRegionKinds)

C5_Witness ==
    /\ fatal
    /\ "anon_types" \in steps_done
    /\ DOMAIN input.anon_types = {15}
    /\ input.anon_types[15].rs = <<ReFree, ReErased>>
    /\ sess.E0564 = 1
    /\ node_to_hir_id(15) \notin DOMAIN tables.node_types

\* C6: no insert into a map of the table being built finds its key present.
C6_NoOverwrite == overwritten = {}

C6_Witness ==
    /\ Done
    /\ DOMAIN input.anon_types = AnonNodes
    /\ DOMAIN published[1].node_types = Ids(DOMAIN input.hir) \cup Ids(AnonNodes)
    /\ node_to_hir_id(12) \in DOMAIN published[1].node_types
    /\ node_to_hir_id(14) \in DOMAIN published[1].node_types
    /\ overwritten = {}

\* C7 as stated: in a run that completes, the nodes with a finalized type
\* are exactly the nodes that had a tentative type in the in-progress table.
C7_TypedNodesAreTentative ==
    Done => DOMAIN published[1].node_types = DOMAIN input.fcx_tables.node_types

\* C7 amended: in a run that completes, the nodes with a finalized type are
\* exactly the nodes that had a tentative type in the in-progress table and
\* the occurrences of the opaque-type registry.
C7_TypedNodesAreTentativeOrOpaque ==
    Done =>
        DOMAIN published[1].node_types
            = DOMAIN input.fcx_tables.node_types \cup Ids(DOMAIN input.anon_types)

C7_Witness ==
    /\ Done
    /\ 15 \in DOMAIN input.anon_types
    /\ node_to_hir_id(15) \notin DOMAIN input.fcx_tables.node_types
    /\ node_to_hir_id(15) \in DOMAIN published[1].node_types
    /\ node_to_hir_id(5) \in DOMAIN published[1].node_types

C9_OrderIndependent ==
    /\ Done =>
          \A order \in Orders(DOMAIN input.anon_types) :
              /\ ~DriverRun(input, order).fatal
              /\ published[1] = DriverRun(input, order).tables
    /\ fatal => \A order \in Orders(DOMAIN input.anon_types) : DriverRun(input, order).fatal

\* the validator has emitted its diagnostic before the walk met the
\* ambiguous node: an order that is not the order of the source
C9_Witness ==
    /\ Done
    /\ input.sess.err_count = 0
    /\ AmbiguousNodes # {}
    /\ sess.E0564 = 1
    /\ sess.E0282 = 0
    /\ published[1].tainted_by_errors

\* expression n is an operator expression whose overload the scalar rewrite
\* removes before the expression's own entries are moved
Elided(n) ==
    /\ input.hir[n].node \in {"ExprBinary", "ExprAssignOp", "ExprUnaryNeg"}
    /\ \A i \in DOMAIN input.hir[n].kids :
          is_scalar(resolve_type_vars_if_possible(TentativeTy(input.hir[n].kids[i])))

\* the in-progress table holds an entry of the map for node n when n is visited
HeldAtVisit(map, n) ==
    /\ node_to_hir_id(n) \in DOMAIN input.fcx_tables[map]
    /\ ~(map = "type_dependent_defs" /\ Elided(n))

\* C10: once a node has been visited the in-progress table holds no
\* type-dependent def, no adjustments and no pattern adjustments for it, and
\* the table being built holds one exactly when the in-progress table held
\* one at the visit, the type-dependent def being the same; after the run
\* the in-progress set of used trait imports is empty and the published set
\* is the one the in-progress table held.
C10_MovedNotCopied ==
    /\ \A n \in DOMAIN input.hir :
          node_to_hir_id(n) \in DOMAIN tables.node_types =>
              /\ \A map \in {"type_dependent_defs", "adjustments", "pat_adjustments"} :
                    /\ node_to_hir_id(n) \notin DOMAIN fcx_tables[map]
                    /\ node_to_hir_id(n) \in DOMAIN tables[map] <=> HeldAtVisit(map, n)
              /\ HeldAtVisit("type_dependent_defs", n) =>
                    tables.type_dependent_defs[node_to_hir_id(n)]
                        = input.fcx_tables.type_dependent_defs[node_to_hir_id(n)]
    /\ Done =>
          /\ fcx_tables.used_trait_imports = {}
          /\ published[1].used_trait_imports = input.fcx_tables.used_trait_imports

C10_Witness ==
    /\ Done
    /\ node_to_hir_id(14) \in DOMAIN published[1].adjustments
    /\ node_to_hir_id(14) \notin DOMAIN fcx_tables.adjustments
    /\ node_to_hir_id(13) \in DOMAIN published[1].pat_adjustments
    /\ node_to_hir_id(13) \notin DOMAIN fcx_tables.pat_adjustments
    /\ node_to_hir_id(8) \in DOMAIN published[1].type_dependent_defs
    /\ published[1].type_dependent_defs[node_to_hir_id(8)] = "method"
    /\ node_to_hir_id(8) \notin DOMAIN fcx_tables.type_dependent_defs
    /\ input.fcx_tables.used_trait_imports = {"Trait1", "Trait2"}
    /\ published[1].used_trait_imports = {"Trait1", "Trait2"}
    /\ fcx_tables.used_trait_imports = {}

\* the maps the side-table passes fill, keyed by local index in the
\* in-progress table
SideMaps ==
    {"closure_tys", "closure_kinds", "cast_kinds", "liberated_fn_sigs", "fru_field_types",
     "generator_sigs", "generator_interiors"}

\* the local indices of an in-progress map, paired with the owner of the
\* in-progress table
RootedKeys(map) ==
    {HirId(input.fcx_tables.local_id_root, k) : k \in DOMAIN input.fcx_tables[map]}

\* C11: every key a side-table pass has inserted carries the owner of the
\* in-progress table and is a local index of the in-progress map; in a run
\* that completes, the key set of each of these maps is exactly the
\* in-progress map's local indices paired with that owner, and the closure
\* kinds and cast kinds are the in-progress values.
C11_SideTableKeys ==
    /\ \A map \in SideMaps :
          /\ DOMAIN tables[map] \subseteq RootedKeys(map)
          /\ \A id \in DOMAIN tables[map] : id.owner = input.fcx_tables.local_id_root
    /\ Done =>
          /\ \A map \in SideMaps : DOMAIN published[1][map] = RootedKeys(map)
          /\ \A map \in {"closure_kinds", "cast_kinds"} :
                \A k \in DOMAIN input.fcx_tables[map] :
                    published[1][map][HirId(input.fcx_tables.local_id_root, k)]
                        = input.fcx_tables[map][k]

C11_Witness ==
    /\ Done
    /\ DOMAIN published[1].generator_sigs = {HirId(BodyOwner, 11), HirId(BodyOwner, 14)}
    /\ DOMAIN published[1].closure_tys = {HirId(BodyOwner, 11)}
    /\ DOMAIN published[1].liberated_fn_sigs = {HirId(BodyOwner, 3)}
    /\ DOMAIN published[1].fru_field_types = {HirId(BodyOwner, 14)}
    /\ DOMAIN published[1].generator_interiors = {HirId(BodyOwner, 11)}
    /\ published[1].closure_kinds = [k \in {HirId(BodyOwner, 11)} |-> "FnMut"]
    /\ published[1].cast_kinds = [k \in {HirId(BodyOwner, 14)} |-> "NumericCast"]

\* what an adjustment sequence has to be stored as: the borrow regions and
\* the target types resolved, no element added or removed
StoredAdjustments(as) ==
    [i \in DOMAIN as |->
        Adjustment(as[i].kind,
                   IF as[i].kind = "Borrow" THEN StoredRegion(as[i].region) ELSE as[i].region,
                   StoredTy(as[i].target))]

\* a sequence without its trailing element, if it has one
WithoutLast(as) == IF as = << >> THEN as ELSE SubSeq(as, 1, Len(as) - 1)

\* both operands of expression 8 resolve to scalar types
ScalarOperands ==
    \A n \in {9, 10} : is_scalar(resolve_type_vars_if_possible(TentativeTy(n)))

\* the finalized adjustments of operand n are the recorded sequence as
\* resolved, and there is an entry exactly when one was recorded
AdjustmentsKept(n) ==
    /\ node_to_hir_id(n) \in DOMAIN published[1].adjustments
          <=> node_to_hir_id(n) \in DOMAIN input.fcx_tables.adjustments
    /\ ExprAdjustments(published[1], n) = StoredAdjustments(ExprAdjustments(input.fcx_tables, n))

\* C12: in a run that completes, for a compound assignment on scalar
\* operands the left operand's finalized adjustments are the recorded ones
\* without the trailing element and the right operand's are the recorded
\* ones; for a by-value binary operator on scalar operands both operands'
\* are the recorded ones; and when an operand of a binary operator or a
\* compound assignment is not scalar, the overload, the substitutions and
\* both operands' adjustments are finalized as recorded.
C12_RewriteFrame ==
    Done =>
        /\ input.hir[8].node = "ExprAssignOp" /\ ScalarOperands =>
              /\ ExprAdjustments(published[1], 9)
                    = StoredAdjustments(WithoutLast(ExprAdjustments(input.fcx_tables, 9)))
              /\ AdjustmentsKept(10)
        /\ input.hir[8].node = "ExprBinary" /\ input.hir[8].by_value /\ ScalarOperands =>
              AdjustmentsKept(9) /\ AdjustmentsKept(10)
        /\ input.hir[8].node \in {"ExprBinary", "ExprAssignOp"} /\ ~ScalarOperands =>
              /\ AdjustmentsKept(9) /\ AdjustmentsKept(10)
              /\ \A id \in {node_to_hir_id(8)} \cap DOMAIN input.fcx_tables.type_dependent_defs :
                    /\ id \in DOMAIN published[1].type_dependent_defs
                    /\ published[1].type_dependent_defs[id]
                          = input.fcx_tables.type_dependent_defs[id]
              /\ \A id \in {node_to_hir_id(8)} \cap DOMAIN input.fcx_tables.node_substs :
                    /\ id \in DOMAIN published[1].node_substs
                    /\ published[1].node_substs[id] =
                          [i \in DOMAIN input.fcx_tables.node_substs[id] |->
                              StoredKind(input.fcx_tables.node_substs[id][i])]

\* a compound assignment on scalars, both operands with two adjustments
C12_Witness ==
    /\ Done
    /\ input.hir[8].node = "ExprAssignOp"
    /\ ScalarOperands
    /\ Len(ExprAdjustments(input.fcx_tables, 9)) = 2
    /\ Len(ExprAdjustments(input.fcx_tables, 10)) = 2
    /\ Len(ExprAdjustments(published[1], 9)) = 1
    /\ Len(ExprAdjustments(published[1], 10)) = 2
    /\ ExprAdjustments(published[1], 10)[2].kind = "Borrow"
    /\ node_to_hir_id(8) \notin DOMAIN published[1].type_dependent_defs

====
